---- MODULE Spec2Model ----
(***************************************************************************)
(* Model of the Lighthouse CI command-line client.                         *)
(*                                                                         *)
(*   src/runlighthouse.js   the Travis client: getConfig resolves the      *)
(*                          pull request from the Travis environment or    *)
(*                          from git and the GitHub API, run posts it.     *)
(*   src/unnamed/part_000   the CircleCI client: the pull request comes    *)
(*                          from CIRCLE_PULL_REQUEST.                      *)
(*                                                                         *)
(* JavaScript strings are sequences of one-character strings; JavaScript   *)
(* values are records with one tag field, so that values of different      *)
(* types can be compared.                                                  *)
(***************************************************************************)
EXTENDS Integers, Sequences, FiniteSets, TLC

VARIABLES
  prog,       \* which client runs: "travis" or "circle"
  argv,       \* minimist's result: help, url (argv._[0]), comment, score, runner
  env,        \* process.env
  pc,         \* position of the process
  config,     \* the config object being built
  prNumber,   \* part_000's module-level prNumber
  gitRes,     \* git name-rev: "none" before it runs, then "stderr" or "ok"
  gitUrl,     \* url of remote "origin" as parseGitConfig.sync() gives it
  apiReq,     \* branch, owner, slug of the GitHub request
  ops,        \* the external operations started, in order
  inflight,   \* the external operations started and not yet answered
  pulls,      \* the GET's outcome
  post,       \* the POST issued: endpoint and body
  resp,       \* the POST's outcome
  log,        \* console output, one tag per message
  exitCode    \* the exit code of the process (meaningful when pc = "exited")

vars == <<prog, argv, env, pc, config, prNumber, gitRes, gitUrl, apiReq, ops, inflight,
          pulls, post, resp, log, exitCode>>

(***************************************************************************)
(* Bounds of the model.                                                    *)
(***************************************************************************)
\* the longest pull request number, in digits
MaxPrDigits == 3
\* the most pull requests the GitHub API returns
MaxPulls == 2

(***************************************************************************)
(* JavaScript values.                                                      *)
(***************************************************************************)
Undefined == [undef |-> TRUE]
Null == [null |-> TRUE]
NaN == [nan |-> TRUE]
Num(n) == [num |-> n]
Str(s) == [str |-> s]
Bool(b) == [bool |-> b]
Obj(f) == [obj |-> f]
EmptyObj == [obj |-> <<>>]

IsNum(v) == "num" \in DOMAIN v
IsStr(v) == "str" \in DOMAIN v
IsObj(v) == "obj" \in DOMAIN v

\* ToBoolean: what `if (v)`, `!v` and `a || b` test
Truthy(v) ==
  CASE v = Undefined -> FALSE
    [] v = Null -> FALSE
    [] v = NaN -> FALSE
    [] IsNum(v) -> v.num # 0
    [] "inf" \in DOMAIN v -> TRUE
    [] "frac" \in DOMAIN v -> TRUE
    [] IsStr(v) -> v.str # <<>>
    [] "bool" \in DOMAIN v -> v.bool
    [] OTHER -> TRUE

\* v.k: a property read.  Reading a property of undefined or null throws
\* (see Readable); a missing property and a property of a primitive are
\* undefined.
Readable(v) == v # Undefined /\ v # Null
Get(v, k) == IF IsObj(v) /\ k \in DOMAIN v.obj THEN v.obj[k] ELSE Undefined

(***************************************************************************)
(* Strings.                                                                *)
(***************************************************************************)
Digits == {"0", "1", "2", "3", "4", "5", "6", "7", "8", "9"}
DigitVal(c) ==
  CASE c = "0" -> 0 [] c = "1" -> 1 [] c = "2" -> 2 [] c = "3" -> 3
    [] c = "4" -> 4 [] c = "5" -> 5 [] c = "6" -> 6 [] c = "7" -> 7
    [] c = "8" -> 8 [] c = "9" -> 9

Max(a, b) == IF a > b THEN a ELSE b
Min(a, b) == IF a < b THEN a ELSE b

\* String.prototype.slice(b, e): negative indices count from the end
SliceIndex(n, i) == IF i < 0 THEN Max(n + i, 0) ELSE Min(i, n)
Slice(s, b, e) == SubSeq(s, SliceIndex(Len(s), b) + 1, SliceIndex(Len(s), e))
SliceFrom(s, b) == SubSeq(s, SliceIndex(Len(s), b) + 1, Len(s))

StartsAt(s, sub, i) ==
  /\ i + Len(sub) - 1 <= Len(s)
  /\ \A j \in 1..Len(sub) : s[i + j - 1] = sub[j]

\* String.prototype.indexOf / lastIndexOf, 0-based, -1 when absent
IndexOf(s, sub) ==
  LET hits == {i \in 1..Len(s) : StartsAt(s, sub, i)}
  IN  IF hits = {} THEN -1 ELSE (CHOOSE i \in hits : \A j \in hits : i <= j) - 1
LastIndexOf(s, sub) ==
  LET hits == {i \in 1..Len(s) : StartsAt(s, sub, i)}
  IN  IF hits = {} THEN -1 ELSE (CHOOSE i \in hits : \A j \in hits : i >= j) - 1

\* String.prototype.split(sep) for a non-empty separator: the pieces between
\* the occurrences of sep, found from the left
RECURSIVE Split(_, _)
Split(s, sep) ==
  LET i == IndexOf(s, sep)
  IN  IF i = -1 THEN <<s>>
      ELSE <<SubSeq(s, 1, i)>> \o Split(SubSeq(s, i + Len(sep) + 1, Len(s)), sep)

\* Array.prototype.join(sep)
RECURSIVE Join(_, _)
Join(parts, sep) ==
  IF parts = <<>> THEN <<>>
  ELSE IF Len(parts) = 1 THEN parts[1]
  ELSE parts[1] \o sep \o Join(Tail(parts), sep)

\* Array.prototype.slice(b) and pop() (the last element)
ArraySliceFrom(a, b) == SubSeq(a, SliceIndex(Len(a), b) + 1, Len(a))
Pop(a) == a[Len(a)]
\* a[i], 0-based, undefined past the end
At(a, i) == IF i + 1 \in 1..Len(a) THEN Str(a[i + 1]) ELSE Undefined

\* numbers that are not integers of the model: plus or minus Infinity, and
\* the double nearest to m * 10^e, m not a multiple of 10, which is not an
\* integer below 2^31
Inf(sign) == [inf |-> sign]
Frac(m, e) == [frac |-> m, exp |-> e]
IsInf(v) == "inf" \in DOMAIN v
IsFrac(v) == "frac" \in DOMAIN v

\* the white space of JavaScript (WhiteSpace and LineTerminator), which
\* Number, parseInt and parseFloat skip.  A character that a TLA+ string
\* cannot hold is written as its code point: "U+000B" is the one character \v.
WhiteSpace ==
  {" ", "\t", "\n", "\r", "\f", "U+000B", "U+00A0", "U+1680",
   "U+2000", "U+2001", "U+2002", "U+2003", "U+2004", "U+2005", "U+2006",
   "U+2007", "U+2008", "U+2009", "U+200A", "U+2028", "U+2029", "U+202F",
   "U+205F", "U+3000", "U+FEFF"}
RECURSIVE TrimStart(_)
TrimStart(s) == IF s # <<>> /\ s[1] \in WhiteSpace THEN TrimStart(Tail(s)) ELSE s
RECURSIVE TrimEnd(_)
TrimEnd(s) ==
  IF s # <<>> /\ s[Len(s)] \in WhiteSpace THEN TrimEnd(SubSeq(s, 1, Len(s) - 1)) ELSE s

\* a sign before a numeral
Unsigned(s) == IF s # <<>> /\ s[1] \in {"+", "-"} THEN Tail(s) ELSE s
SignOf(s) == IF s # <<>> /\ s[1] = "-" THEN -1 ELSE 1

\* the longest prefix of decimal digits and the value of a string of digits
RECURSIVE DigitPrefix(_)
DigitPrefix(s) ==
  IF s = <<>> \/ s[1] \notin Digits THEN <<>> ELSE <<s[1]>> \o DigitPrefix(Tail(s))
RECURSIVE DecimalValue(_)
DecimalValue(d) ==
  IF d = <<>> THEN 0 ELSE 10 * DecimalValue(SubSeq(d, 1, Len(d) - 1)) + DigitVal(d[Len(d)])

\* digits of the binary, octal and hexadecimal literals and their value
RadixDigits(base) ==
  CASE base = 2 -> {"0", "1"}
    [] base = 8 -> {"0", "1", "2", "3", "4", "5", "6", "7"}
    [] base = 16 -> Digits \cup {"a", "b", "c", "d", "e", "f", "A", "B", "C", "D", "E", "F"}
RadixDigitVal(c) ==
  CASE c \in Digits -> DigitVal(c)
    [] c \in {"a", "A"} -> 10 [] c \in {"b", "B"} -> 11 [] c \in {"c", "C"} -> 12
    [] c \in {"d", "D"} -> 13 [] c \in {"e", "E"} -> 14 [] c \in {"f", "F"} -> 15
RECURSIVE RadixValue(_, _)
RadixValue(d, base) ==
  IF d = <<>> THEN 0
  ELSE base * RadixValue(SubSeq(d, 1, Len(d) - 1), base) + RadixDigitVal(d[Len(d)])
RadixOf(s) ==
  IF Len(s) < 2 \/ s[1] # "0" THEN 0
  ELSE CASE s[2] \in {"b", "B"} -> 2
         [] s[2] \in {"o", "O"} -> 8
         [] s[2] \in {"x", "X"} -> 16
         [] OTHER -> 0

\* an unsigned decimal literal: digits, a point and digits, an exponent.
\* ok: s is one; mant, exp: its value is mant * 10^exp.  (Each part is
\* computed once: {e : x \in {d}} binds x to the value of d.)
\* the exponent part r2 after the digits ip and the fraction digits fp
ExponentPart(ip, fp, r2) ==
  LET ex == IF r2 # <<>> /\ r2[1] \in {"e", "E"} THEN Tail(r2) ELSE <<>>
      ed == Unsigned(ex)
      expOk == ed # <<>> /\ \A i \in 1..Len(ed) : ed[i] \in Digits
  IN  [ok |-> Len(ip) + Len(fp) >= 1 /\ (r2 = <<>> \/ expOk),
       mant |-> DecimalValue(ip \o fp),
       exp |-> (IF expOk THEN SignOf(ex) * DecimalValue(ed) ELSE 0) - Len(fp)]
\* the fraction part r1 after the digits ip
FractionPart(ip, r1) ==
  IF r1 # <<>> /\ r1[1] = "."
  THEN CHOOSE r \in {ExponentPart(ip, fp, SubSeq(r1, Len(fp) + 2, Len(r1))) :
                       fp \in {DigitPrefix(Tail(r1))}} : TRUE
  ELSE ExponentPart(ip, <<>>, r1)
DecimalParts(s) ==
  CHOOSE r \in {FractionPart(ip, SubSeq(s, Len(ip) + 1, Len(s))) :
                  ip \in {DigitPrefix(s)}} : TRUE

\* the number of decimal digits of m > 0, and 10^k
RECURSIVE NumDigits(_)
NumDigits(m) == IF m < 10 THEN 1 ELSE 1 + NumDigits(m \div 10)
RECURSIVE Pow10(_)
Pow10(k) == IF k = 0 THEN 1 ELSE 10 * Pow10(k - 1)
\* m * 10^e, m > 0, rounds to the double 0: it is at most 2^-1075, which is
\* 2.4703282292...e-324 (half of the least double above 0)
Underflows(m, e) ==
  \/ e + NumDigits(m) - 1 < -324
  \/ /\ e + NumDigits(m) - 1 = -324
     /\ NumDigits(m) = 10 \/ m * Pow10(9 - NumDigits(m)) <= 247032822
\* m * 10^e, m > 0, rounds to Infinity: it is at least 2^1024 - 2^970, which
\* is 1.7976931348623158079...e308
Overflows(m, e) ==
  \/ e + NumDigits(m) - 1 > 308
  \/ /\ e + NumDigits(m) - 1 = 308
     /\ IF NumDigits(m) = 10 THEN m >= 1797693135
        ELSE m * Pow10(9 - NumDigits(m)) >= 179769314
\* m * 10^e, m > 0, is an integer below 2^31
FitsInteger(m, e) ==
  /\ e >= 0
  /\ \/ e + NumDigits(m) <= 9
     \/ e + NumDigits(m) = 10 /\ m <= 2147483647 \div Pow10(e)
\* the double of sign * m * 10^e, m a numeral of the integers of the model:
\* 0 (-0 is 0) when it underflows, an infinity when it overflows, Num(n) for
\* an integer below 2^31, and else Frac(m, e) with m not a multiple of 10
RECURSIVE DecimalNumber(_, _, _)
DecimalNumber(sign, m, e) ==
  IF m = 0 \/ Underflows(m, e) THEN Num(0)
  ELSE IF Overflows(m, e) THEN Inf(sign)
  ELSE IF m % 10 = 0 THEN DecimalNumber(sign, m \div 10, e + 1)
  ELSE IF FitsInteger(m, e) THEN Num(sign * m * Pow10(e))
  ELSE Frac(sign * m, e)

S_Infinity == <<"I", "n", "f", "i", "n", "i", "t", "y">>
\* the value of s as a signed decimal literal or Infinity, NaN when it is none
DecimalLiteral(s) ==
  IF Unsigned(s) = S_Infinity THEN Inf(SignOf(s))
  ELSE CHOOSE r \in {IF p.ok THEN DecimalNumber(SignOf(s), p.mant, p.exp) ELSE NaN :
                       p \in {DecimalParts(Unsigned(s))}} : TRUE

\* Number(s) of a string: white space trimmed, "" is 0, a binary, octal or
\* hexadecimal literal, or a signed decimal literal or Infinity
TrimmedToNumber(t) ==
  LET d == SubSeq(t, 3, Len(t))
  IN  IF t = <<>> THEN Num(0)
      ELSE IF RadixOf(t) # 0
      THEN IF d # <<>> /\ \A i \in 1..Len(d) : d[i] \in RadixDigits(RadixOf(t))
           THEN Num(RadixValue(d, RadixOf(t)))
           ELSE NaN
      ELSE DecimalLiteral(t)
StringToNumber(s) == CHOOSE r \in {TrimmedToNumber(t) : t \in {TrimEnd(TrimStart(s))}} : TRUE

\* parseInt(s, 10): leading white space, a sign, the longest prefix of digits
ParseInt(s) ==
  LET t == TrimStart(s)
      d == DigitPrefix(Unsigned(t))
  IN  IF d = <<>> THEN NaN ELSE Num(SignOf(t) * DecimalValue(d))

\* parseFloat(s): leading white space, then the longest prefix that is a
\* signed decimal literal or Infinity
LongestLiteral(t) ==
  CHOOSE r \in
    {IF ks = {} THEN NaN
     ELSE DecimalLiteral(SubSeq(t, 1, CHOOSE k \in ks : \A l \in ks : l <= k)) :
       ks \in {{k \in 0..Len(t) : DecimalLiteral(SubSeq(t, 1, k)) # NaN}}} : TRUE
ParseFloat(s) == CHOOSE r \in {LongestLiteral(t) : t \in {TrimStart(s)}} : TRUE

\* Number(v)
ToNumber(v) ==
  CASE v = Undefined -> NaN
    [] v = Null -> Num(0)
    [] v = NaN -> NaN
    [] IsNum(v) -> v
    [] IsInf(v) -> v
    [] IsFrac(v) -> v
    [] "bool" \in DOMAIN v -> IF v.bool THEN Num(1) ELSE Num(0)
    [] IsStr(v) -> StringToNumber(v.str)
    [] OTHER -> NaN
\* isNaN(v), isFinite(v): through Number(v)
IsNaN(v) == ToNumber(v) = NaN
IsFinite(v) == ToNumber(v) # NaN /\ ~IsInf(ToNumber(v))

(***************************************************************************)
(* String literals of the program and of its inputs.                       *)
(***************************************************************************)
S_chrome == <<"c", "h", "r", "o", "m", "e">>
S_wpt == <<"w", "p", "t">>
S_json == <<"j", "s", "o", "n">>
S_http == <<"h", "t", "t", "p">>
S_schemeSep == <<":", "/", "/">>
S_slash == <<"/">>
S_colon == <<":">>
S_dot == <<".">>
S_dotGit == <<".", "g", "i", "t">>
S_runOnWpt == <<"/", "r", "u", "n", "_", "o", "n", "_", "w", "p", "t">>
S_runOnChrome == <<"/", "r", "u", "n", "_", "o", "n", "_", "c", "h", "r", "o", "m", "e">>

(***************************************************************************)
(* runlighthouse.js: pure functions.                                       *)
(***************************************************************************)
RUNNERS == {S_chrome, S_wpt}

\* the slug of the origin remote's url: the last two path parts of an http
\* url, or what follows the last ':' otherwise, less its last four characters
getRepoSlugFromFile(url) ==
  IF IndexOf(url, S_http) = 0
  THEN LET parts == Split(Pop(Split(url, S_schemeSep)), S_slash)
       IN  Slice(Join(ArraySliceFrom(parts, Len(parts) - 2), S_slash), 0, -4)
  ELSE Slice(SliceFrom(url, LastIndexOf(url, S_colon) + 1), 0, -4)

\* getRepoInfoFromSlug with owner and name exchanged: a variant C4_TravisEnv
\* must reject
getRepoInfoFromSlug_Swapped(slug) ==
  Obj([owner |-> At(Split(slug, S_slash), 1), name |-> At(Split(slug, S_slash), 0)])

getRepoInfoFromSlug(slug) ==
  Obj([owner |-> At(Split(slug, S_slash), 0), name |-> At(Split(slug, S_slash), 1)])

\* JSON.stringify of a value that is not an object: NaN and the infinities
\* become null
StringifyValue(v) == IF v = NaN \/ IsInf(v) THEN Null ELSE v
\* JSON.stringify of an object of such values: undefined properties are left out
StringifyFlat(f) ==
  [k \in {k \in DOMAIN f : f[k] # Undefined} |-> StringifyValue(f[k])]
\* JSON.stringify of config, whose properties are values or objects of values;
\* the result is the JSON text, read back as an object
Stringify(f) ==
  [k \in {k \in DOMAIN f : f[k] # Undefined} |->
     IF IsObj(f[k]) THEN Obj(StringifyFlat(f[k].obj)) ELSE StringifyValue(f[k])]

\* process.env.CI_HOST is not set: the default
CI_HOST == <<"h", "t", "t", "p", "s", ":", "/", "/", "l", "i", "g", "h", "t", "h", "o", "u", "s", "e", "-", "c", "i", ".", "a", "p", "p", "s", "p", "o", "t", ".", "c", "o", "m">>

\* getConfigArgs without the check of the runner: a variant C1_UsageError
\* must reject
getConfigArgs_AnyRunner(a) ==
  LET c1 == [testUrl |-> a.url]
      c2 == c1 @@ [addComment |-> Bool(a.comment), minPassScore |-> ToNumber(a.score)]
      c3 == c2 @@ [runner |-> IF Truthy(a.runner) THEN a.runner ELSE Str(S_chrome)]
  IN  IF a.help
      THEN [ok |-> FALSE, config |-> <<>>, log |-> <<"usage">>]
      ELSE IF ~Truthy(c1.testUrl)
      THEN [ok |-> FALSE, config |-> c1, log |-> <<"provide_url", "usage">>]
      ELSE IF ~Truthy(c2.addComment) /\ ~Truthy(c2.minPassScore)
      THEN [ok |-> FALSE, config |-> c2, log |-> <<"provide_score", "usage">>]
      ELSE [ok |-> TRUE, config |-> c3, log |-> <<"using_runner">>]

\* getConfigArgs without the check of --no-comment against --score: a variant
\* C6_NonZeroScore must reject
getConfigArgs_NoScoreCheck(a) ==
  LET c1 == [testUrl |-> a.url]
      c2 == c1 @@ [addComment |-> Bool(a.comment), minPassScore |-> ToNumber(a.score)]
      c3 == c2 @@ [runner |-> IF Truthy(a.runner) THEN a.runner ELSE Str(S_chrome)]
  IN  IF a.help
      THEN [ok |-> FALSE, config |-> <<>>, log |-> <<"usage">>]
      ELSE IF ~Truthy(c1.testUrl)
      THEN [ok |-> FALSE, config |-> c1, log |-> <<"provide_url", "usage">>]
      ELSE IF ~(IsStr(c3.runner) /\ c3.runner.str \in RUNNERS)
      THEN [ok |-> FALSE, config |-> c3, log |-> <<"unknown_runner", "usage">>]
      ELSE [ok |-> TRUE, config |-> c3, log |-> <<"using_runner">>]

\* the checks of getConfig on minimist's result a: whether they pass, the
\* config built so far and what was logged
getConfigArgs(a) ==
  LET c1 == [testUrl |-> a.url]
      c2 == c1 @@ [addComment |-> Bool(a.comment), minPassScore |-> ToNumber(a.score)]
      c3 == c2 @@ [runner |-> IF Truthy(a.runner) THEN a.runner ELSE Str(S_chrome)]
  IN  IF a.help
      THEN [ok |-> FALSE, config |-> <<>>, log |-> <<"usage">>]
      ELSE IF ~Truthy(c1.testUrl)
      THEN [ok |-> FALSE, config |-> c1, log |-> <<"provide_url", "usage">>]
      ELSE IF ~Truthy(c2.addComment) /\ ~Truthy(c2.minPassScore)
      THEN [ok |-> FALSE, config |-> c2, log |-> <<"provide_score", "usage">>]
      ELSE IF ~(IsStr(c3.runner) /\ c3.runner.str \in RUNNERS)
      THEN [ok |-> FALSE, config |-> c3, log |-> <<"unknown_runner", "usage">>]
      ELSE [ok |-> TRUE, config |-> c3, log |-> <<"using_runner">>]

\* the endpoint and the body run posts for config c
runEndpoint(c) ==
  IF c.runner = Str(S_wpt) THEN CI_HOST \o S_runOnWpt ELSE CI_HOST \o S_runOnChrome
\* runBody (below) with output "json" added for either runner: a variant
\* C5_Body must reject
runBody_OutputAlways(c) == Stringify(c @@ [output |-> Str(S_json)])
runBody(c) ==
  IF c.runner = Str(S_wpt) THEN Stringify(c)
  ELSE Stringify(c @@ [output |-> Str(S_json)])

(***************************************************************************)
(* Inputs.                                                                 *)
(***************************************************************************)
S_testUrl == <<"h", "t", "t", "p", ":", "/", "/", "t">>
S_foo == <<"f", "o", "o">>
S_false == <<"f", "a", "l", "s", "e">>
S_sha == <<"5", "f", "3", "a">>
\* the stdout of git name-rev ends with a line feed
S_branch == <<"d", "e", "v", "\n">>
S_travisSlug == <<"a", "b", "/", "c", "d">>
S_pullUrl == <<"h", "t", "t", "p", "s", ":", "/", "/", "g", "i", "t", "h", "u", "b", ".", "c", "o", "m", "/", "a", "b", "/", "c", "d", "/", "p", "u", "l", "l", "/">>
S_circleSsh == <<"g", "i", "t", "@", "g", "i", "t", "h", "u", "b", ".", "c", "o", "m", ":", "a", "b", "/", "c", "d", ".", "g", "i", "t">>
S_circleHttps == <<"h", "t", "t", "p", "s", ":", "/", "/", "g", "i", "t", "h", "u", "b", ".", "c", "o", "m", "/", "a", "b", "/", "c", "d">>
S_binary == <<"0", "b", "1", "1">>
S_padded == <<" ", "1", "2">>
S_vtab == <<"U+000B", "1", "2", "U+00A0">>
\* minimist turns a plain numeral into a number; one beside white space stays a string
S_tiny == <<" ", "1", "e", "-", "4", "0", "0">>
S_target == <<"h", "t", "t", "p", "s", ":", "/", "/", "x">>

\* what minimist can return
Argvs ==
  [help : BOOLEAN,
   url : {Undefined, Str(<<>>), Str(S_testUrl)},
   comment : BOOLEAN,
   score : {Undefined, Num(0), Num(-5), Num(93), Bool(TRUE), Str(S_foo), Str(S_binary),
            Str(S_padded), Str(S_vtab), Str(S_tiny), Str(S_Infinity)},
   runner : {Undefined, Str(<<>>), Str(S_chrome), Str(S_wpt), Str(S_foo)}]

\* pull request numbers as decimal numerals
PrNumerals == UNION {[1..n -> {"1", "2"}] : n \in 1..MaxPrDigits}

NoEnv ==
  [TRAVIS_PULL_REQUEST |-> Undefined, TRAVIS_PULL_REQUEST_SHA |-> Undefined,
   TRAVIS_PULL_REQUEST_SLUG |-> Undefined, CIRCLE_PULL_REQUEST |-> Undefined,
   CIRCLE_SHA1 |-> Undefined, CIRCLE_REPOSITORY_URL |-> Undefined]

\* Travis sets TRAVIS_PULL_REQUEST to "false" and the other two to "" on a
\* build that is not a pull request's
TravisEnvs ==
  {[NoEnv EXCEPT !.TRAVIS_PULL_REQUEST = p, !.TRAVIS_PULL_REQUEST_SHA = s,
                 !.TRAVIS_PULL_REQUEST_SLUG = g] :
     p \in {Undefined, Str(<<>>), Str(S_false)} \cup {Str(d) : d \in PrNumerals},
     s \in {Str(<<>>), Str(S_sha)},
     g \in {Str(<<>>), Str(S_travisSlug)}}

\* CircleCI sets CIRCLE_PULL_REQUEST only on a pull request's build
CircleEnvs ==
  {[NoEnv EXCEPT !.CIRCLE_PULL_REQUEST = p, !.CIRCLE_SHA1 = Str(S_sha),
                 !.CIRCLE_REPOSITORY_URL = Str(r)] :
     p \in {Undefined} \cup {Str(S_pullUrl \o d) : d \in PrNumerals},
     r \in {S_circleSsh, S_circleHttps}}

\* the url of remote "origin" in .git/config, in its https and its ssh form
S_httpsHost == <<"h", "t", "t", "p", "s", ":", "/", "/", "g", "i", "t", "h", "u", "b", ".", "c", "o", "m", "/">>
S_sshHost == <<"g", "i", "t", "@", "g", "i", "t", "h", "u", "b", ".", "c", "o", "m", ":">>
RepoOwners == {<<"a", "b">>}
RepoNames == {<<"s", "i", "t", "e">>, <<"n">>}
RemoteUrl(form, owner, name, suffix) ==
  (IF form = "https" THEN S_httpsHost ELSE S_sshHost) \o owner \o S_slash \o name \o suffix
\* parseGitConfig.sync()['remote "origin"']: undefined when there is none
GitUrls ==
  {Undefined} \cup
  {Str(RemoteUrl(f, o, n, s)) :
     f \in {"https", "ssh"}, o \in RepoOwners, n \in RepoNames, s \in {<<>>, S_dotGit}}

\* JavaScript arrays
Arr(a) == [arr |-> a]
IsArr(v) == "arr" \in DOMAIN v

\* what GitHub answers: the request fails, the body is not JSON, or it is an
\* error object, an object without a message or an array of pull requests
Pull(n, sha) == Obj([number |-> Num(n), head |-> Obj([sha |-> Str(sha)])])
Pulls == {Pull(7, <<"a", "7">>), Pull(8, <<"b", "8">>)}
GetOutcomes ==
  {[kind |-> "reject"], [kind |-> "badjson"],
   [kind |-> "json", json |-> Obj([message |-> Str(<<"N", "o", "t", " ", "F", "o", "u", "n", "d">>)])],
   [kind |-> "json", json |-> EmptyObj]} \cup
  {[kind |-> "json", json |-> Arr(a)] :
     a \in UNION {[1..n -> Pulls] : n \in 0..MaxPulls}}

\* what the Lighthouse CI server answers
PostOutcomes ==
  {[kind |-> "reject"], [kind |-> "badjson"]} \cup
  {[kind |-> "json", json |-> j] :
     j \in {Null, EmptyObj, Obj([score |-> Num(95)]),
            Obj([data |-> Obj([target_url |-> Str(S_target)])])}}

(***************************************************************************)
(* The process.                                                            *)
(***************************************************************************)
Init ==
  /\ prog \in {"travis", "circle"}
  /\ argv \in Argvs
  /\ env \in IF prog = "travis" THEN TravisEnvs ELSE CircleEnvs
  /\ pc = "start"
  /\ config = <<>>
  /\ prNumber = Undefined
  /\ gitRes = "none"
  /\ gitUrl = Undefined
  /\ apiReq = Undefined
  /\ ops = <<>>
  /\ inflight = {}
  /\ pulls = Undefined
  /\ post = Undefined
  /\ resp = Undefined
  /\ log = <<>>
  /\ exitCode = 0

\* process.exit(code) after logging msgs
Exit(code, msgs) ==
  /\ pc' = "exited"
  /\ exitCode' = code
  /\ log' = log \o msgs

\* run(c): the POST is issued, its answer is awaited
run(c) ==
  /\ post' = [endpoint |-> runEndpoint(c), body |-> runBody(c)]
  /\ ops' = Append(ops, "POST")
  /\ inflight' = inflight \cup {"POST"}
  /\ pc' = "posted"

\* runlighthouse.js: getConfig(), to the promise it returns
GetConfig ==
  /\ prog = "travis"
  /\ pc = "start"
  /\ LET r == getConfigArgs(argv)
     IN  IF ~r.ok
         THEN /\ Exit(1, r.log)
              /\ config' = r.config
         ELSE IF Truthy(env.TRAVIS_PULL_REQUEST)
         THEN /\ config' = r.config @@
                   [pr |-> Obj([number |-> ParseInt(env.TRAVIS_PULL_REQUEST.str),
                                sha |-> env.TRAVIS_PULL_REQUEST_SHA]),
                    repo |-> getRepoInfoFromSlug(env.TRAVIS_PULL_REQUEST_SLUG.str)]
              /\ log' = log \o r.log \o <<"travis_pr">>
              /\ pc' = "resolved"
              /\ UNCHANGED exitCode
         ELSE /\ config' = r.config
              /\ log' = log \o r.log \o <<"reading_git">>
              /\ pc' = "git"
              /\ UNCHANGED exitCode
  /\ UNCHANGED <<prog, argv, env, prNumber, gitUrl, apiReq, ops, inflight, post, resp,
                 gitRes, pulls>>

\* getPrInfoFromApi, its first callback and the catch after it: git name-rev
\* runs, then .git/config is read
ReadGit ==
  /\ pc = "git"
  /\ ops' = Append(ops, "git")
  /\ \E stderr \in BOOLEAN, url \in GitUrls :
       IF stderr
       THEN /\ gitRes' = "stderr"
            /\ log' = Append(log, "git_config_failed")
            /\ pc' = "rejected"
            /\ UNCHANGED <<gitUrl, apiReq>>
       ELSE /\ gitRes' = "ok"
            /\ gitUrl' = url
            /\ IF url = Undefined
               THEN /\ log' = Append(log, "git_config_failed")
                    /\ pc' = "rejected"
                    /\ UNCHANGED apiReq
               ELSE /\ apiReq' = [branch |-> S_branch,
                                  owner |-> Head(Split(getRepoSlugFromFile(url.str), S_slash)),
                                  slug |-> getRepoSlugFromFile(url.str)]
                    /\ pc' = "fetch"
                    /\ UNCHANGED log
  /\ UNCHANGED <<prog, argv, env, config, prNumber, inflight, post, resp, exitCode,
                 pulls>>

\* getPrInfoFromApi, its second callback: the GET to api.github.com is issued
FetchPulls ==
  /\ pc = "fetch"
  /\ ops' = Append(ops, "GET")
  /\ inflight' = inflight \cup {"GET"}
  /\ pc' = "pulls"
  /\ UNCHANGED <<prog, argv, env, config, prNumber, gitUrl, apiReq, post, resp, log,
                 exitCode, gitRes, pulls>>

\* the pull request the callback on the GET's answer returns, undefined when
\* it throws
prOfPulls(json) ==
  IF ~IsArr(json) THEN Undefined
  ELSE IF Len(json.arr) = 0 THEN Undefined
  ELSE LET pull == Pop(json.arr)
       IN  IF ~Readable(pull) \/ ~Readable(Get(pull, "head")) THEN Undefined
           ELSE Obj([number |-> Get(pull, "number"), sha |-> Get(Get(pull, "head"), "sha")])

\* the GET is answered: resp.json(), the callback on pulls, and getConfig's
\* callback on the pull request found
PullsResponse ==
  /\ pc = "pulls"
  /\ inflight' = inflight \ {"GET"}
  /\ \E r \in GetOutcomes :
       /\ pulls' = r
       /\ IF r.kind = "json" /\ prOfPulls(r.json) # Undefined
          THEN /\ config' = config @@
                    [pr |-> prOfPulls(r.json),
                     repo |-> getRepoInfoFromSlug(getRepoSlugFromFile(gitUrl.str))]
               /\ pc' = "resolved"
          ELSE /\ pc' = "rejected"
               /\ UNCHANGED config
  /\ UNCHANGED <<prog, argv, env, prNumber, gitUrl, apiReq, ops, post, resp, log,
                 exitCode, gitRes>>

\* ConfigFailed with process.exit(1): a variant C2_SoftFailure must reject
ConfigFailed_Exit1 ==
  /\ pc = "rejected"
  /\ Exit(1, <<"no_valid_config", "error">>)
  /\ UNCHANGED <<prog, argv, env, config, prNumber, gitRes, gitUrl, apiReq, ops, inflight,
                 pulls, post, resp>>

\* the catch on getConfig(): two messages, the second the error itself
ConfigFailed ==
  /\ pc = "rejected"
  /\ Exit(0, <<"no_valid_config", "error">>)
  /\ UNCHANGED <<prog, argv, env, config, prNumber, gitUrl, apiReq, ops, inflight,
                 post, resp, gitRes, pulls>>

\* the callback on getConfig(): run(c)
Run ==
  /\ pc = "resolved"
  /\ run(config)
  /\ UNCHANGED <<prog, argv, env, config, prNumber, gitUrl, apiReq, resp, log,
                 exitCode, gitRes, pulls>>

\* runResult with the catch before resp.json(), so that a body that is not
\* JSON is an unhandled rejection: a variant C3_HardFailure must reject
runResult_ParseUncaught(c, r) ==
  IF r.kind = "reject" THEN "failed"
  ELSE IF r.kind = "badjson" THEN "unhandled"
  ELSE IF c.runner = Str(S_wpt)
  THEN IF Readable(r.json) /\ Readable(Get(r.json, "data")) THEN "wpt_started" ELSE "failed"
  ELSE IF Readable(r.json) THEN "score" ELSE "failed"

\* what run's callbacks do with the POST's outcome r: the message logged,
\* "failed" when the catch runs
runResult(c, r) ==
  IF r.kind # "json" THEN "failed"
  ELSE IF c.runner = Str(S_wpt)
  THEN IF Readable(r.json) /\ Readable(Get(r.json, "data")) THEN "wpt_started" ELSE "failed"
  ELSE IF Readable(r.json) THEN "score" ELSE "failed"

\* PostResponse with the catch calling run again: a variant C7_LinearOrder
\* must reject
PostResponse_Retry ==
  /\ pc = "posted"
  /\ \E r \in PostOutcomes :
       /\ resp' = r
       /\ IF runResult(config, r) = "failed"
          THEN /\ post' = [endpoint |-> runEndpoint(config), body |-> runBody(config)]
               /\ ops' = Append(ops, "POST")
               /\ log' = Append(log, "lighthouse_failed")
               /\ UNCHANGED <<pc, inflight, exitCode>>
          ELSE /\ Exit(0, <<runResult(config, r)>>)
               /\ inflight' = inflight \ {"POST"}
               /\ UNCHANGED <<ops, post>>
  /\ UNCHANGED <<prog, argv, env, config, prNumber, gitRes, gitUrl, apiReq, pulls>>

\* the POST is answered: resp.json(), the callback on json, the catch
PostResponse ==
  /\ pc = "posted"
  /\ inflight' = inflight \ {"POST"}
  /\ \E r \in PostOutcomes :
       /\ resp' = r
       /\ IF runResult(config, r) = "failed"
          THEN Exit(1, <<"lighthouse_failed">>)
          ELSE Exit(0, <<runResult(config, r)>>)
  /\ UNCHANGED <<prog, argv, env, config, prNumber, gitUrl, apiReq, ops, post, gitRes,
                 pulls>>

(***************************************************************************)
(* part_000, the CircleCI client.  Its printUsageAndExit, its checks in    *)
(* getConfig and its run are those of runlighthouse.js.                    *)
(***************************************************************************)
\* const prNumber = CIRCLE_PULL_REQUEST.slice(-2): a TypeError when the
\* variable is not set, which ends the process with code 1
CircleLoad ==
  /\ prog = "circle"
  /\ pc = "start"
  /\ IF env.CIRCLE_PULL_REQUEST = Undefined
     THEN /\ Exit(1, <<"uncaught">>)
          /\ UNCHANGED prNumber
     ELSE /\ prNumber' = Str(SliceFrom(env.CIRCLE_PULL_REQUEST.str, -2))
          /\ pc' = "loaded"
          /\ UNCHANGED <<log, exitCode>>
  /\ UNCHANGED <<prog, argv, env, config, gitUrl, apiReq, ops, inflight, post, resp,
                 gitRes, pulls>>

\* config.repo of part_000's getConfig
circleRepo(url) ==
  LET pullRequest == Split(url, S_colon)[2]
  IN  Obj([owner |-> Str(Split(pullRequest, S_slash)[1]),
           name |-> Str(Split(Split(pullRequest, S_slash)[2], S_dot)[1])])

\* const config = getConfig()
CircleGetConfig ==
  /\ pc = "loaded"
  /\ LET r == getConfigArgs(argv)
     IN  IF ~r.ok
         THEN /\ Exit(1, r.log)
              /\ config' = r.config
         ELSE /\ config' = r.config @@
                   [pr |-> Obj([number |-> prNumber, sha |-> env.CIRCLE_SHA1]),
                    repo |-> circleRepo(env.CIRCLE_REPOSITORY_URL.str)]
              /\ log' = log \o r.log
              /\ pc' = "configured"
              /\ UNCHANGED exitCode
  /\ UNCHANGED <<prog, argv, env, prNumber, gitUrl, apiReq, ops, inflight, post, resp,
                 gitRes, pulls>>

\* Run LH if this is a PR
CircleMain ==
  /\ pc = "configured"
  /\ IF ~IsNaN(ParseFloat(prNumber.str)) /\ IsFinite(prNumber)
     THEN /\ run(config)
          /\ UNCHANGED <<log, exitCode>>
     ELSE /\ Exit(0, <<"non_pr">>)
          /\ UNCHANGED <<ops, inflight, post>>
  /\ UNCHANGED <<prog, argv, env, config, prNumber, gitUrl, apiReq, resp, gitRes,
                 pulls>>

Next ==
  \/ GetConfig
  \/ ReadGit
  \/ FetchPulls
  \/ PullsResponse
  \/ ConfigFailed
  \/ Run
  \/ PostResponse
  \/ CircleLoad
  \/ CircleGetConfig
  \/ CircleMain

Spec == Init /\ [][Next]_vars

(***************************************************************************)
(* Properties.                                                             *)
(***************************************************************************)
Did(op) == \E i \in DOMAIN ops : ops[i] = op
LastLog == IF log = <<>> THEN "" ELSE log[Len(log)]
\* the usage text was printed last and the process ended with code 1
UsageExit == pc = "exited" /\ exitCode = 1 /\ LastLog = "usage"
\* the decimal numeral of a natural number
RECURSIVE NumeralOf(_)
NumeralOf(n) ==
  LET d == CHOOSE c \in Digits : DigitVal(c) = n % 10
  IN  IF n < 10 THEN <<d>> ELSE NumeralOf(n \div 10) \o <<d>>

\* C1, as claimed: once getConfig of runlighthouse.js has run with --help, with
\* no or an empty url, or with a --runner value other than chrome and wpt, the
\* usage text is printed, the process has ended with code 1 and no git, GET or
\* POST was performed.
C1_AnyRunnerValue ==
  (/\ prog = "travis"
   /\ pc # "start"
   /\ \/ argv.help
      \/ argv.url \in {Undefined, Str(<<>>)}
      \/ argv.runner \notin {Undefined, Str(S_chrome), Str(S_wpt)})
  => (UsageExit /\ ops = <<>>)

\* C1, amended: the same, for a --runner value other than chrome and wpt that
\* is truthy; an empty --runner selects chrome like no --runner.
C1_UsageError ==
  /\ (/\ prog = "travis"
      /\ pc # "start"
      /\ \/ argv.help
         \/ argv.url \in {Undefined, Str(<<>>)}
         \/ argv.runner \notin {Undefined, Str(<<>>), Str(S_chrome), Str(S_wpt)})
     => (UsageExit /\ ops = <<>>)
  /\ (/\ prog = "travis"
      /\ pc # "start"
      /\ ~argv.help
      /\ argv.url \notin {Undefined, Str(<<>>)}
      /\ argv.comment
      /\ argv.runner = Str(<<>>))
     => (~UsageExit /\ config.runner = Str(S_chrome))

C1_Witness ==
  /\ prog = "travis"
  /\ ~argv.help
  /\ argv.url = Str(S_testUrl)
  /\ argv.comment
  /\ argv.runner = Str(S_foo)
  /\ UsageExit
  /\ log = <<"unknown_runner", "usage">>

\* the pull request could not be resolved from git and the GitHub API
ResolutionFailed ==
  \/ gitRes = "stderr"
  \/ gitRes = "ok" /\ gitUrl = Undefined
  \/ /\ pulls # Undefined
     /\ \/ pulls.kind \in {"reject", "badjson"}
        \/ /\ pulls.kind = "json"
           /\ \/ Readable(Get(pulls.json, "message"))
              \/ pulls.json = [arr |-> <<>>]

\* C2: when TRAVIS_PULL_REQUEST is not set and the pull request cannot be
\* resolved from git and the GitHub API, the process only logs the failure
\* and ends with code 0; no POST is issued.
C2_SoftFailure ==
  (prog = "travis" /\ ~Truthy(env.TRAVIS_PULL_REQUEST) /\ ResolutionFailed)
  => /\ ~Did("POST")
     /\ pc \in {"rejected", "exited"}
     /\ pc = "exited" =>
          /\ exitCode = 0
          /\ Len(log) >= 2
          /\ SubSeq(log, Len(log) - 1, Len(log)) = <<"no_valid_config", "error">>

C2_Witness ==
  /\ prog = "travis"
  /\ env.TRAVIS_PULL_REQUEST = Undefined
  /\ pulls # Undefined
  /\ pulls.kind = "json"
  /\ pulls.json = [arr |-> <<>>]
  /\ pc = "exited"
  /\ exitCode = 0

\* C3: when the POST rejects or its body is not JSON, with either runner, the
\* failure is logged and the process ends with code 1.
C3_HardFailure ==
  (resp # Undefined /\ resp.kind \in {"reject", "badjson"})
  => (pc = "exited" /\ exitCode = 1 /\ LastLog = "lighthouse_failed")

C3_Witness ==
  /\ resp # Undefined
  /\ resp.kind = "badjson"
  /\ config.runner = Str(S_wpt)
  /\ exitCode = 1

\* C4: when TRAVIS_PULL_REQUEST is set and the arguments are valid, no git
\* subprocess and no GET is performed, the POST is issued, and the config
\* posted has the pull request number and sha of the environment and the two
\* parts of TRAVIS_PULL_REQUEST_SLUG as repo.owner and repo.name.
C4_TravisEnv ==
  (prog = "travis" /\ Truthy(env.TRAVIS_PULL_REQUEST))
  => /\ ~Did("git") /\ ~Did("GET")
     /\ (pc = "exited" /\ getConfigArgs(argv).ok) => Did("POST")
     /\ Did("POST") =>
          /\ Get(config.pr, "sha") = env.TRAVIS_PULL_REQUEST_SHA
          /\ env.TRAVIS_PULL_REQUEST.str \in PrNumerals =>
               /\ IsNum(Get(config.pr, "number"))
               /\ NumeralOf(Get(config.pr, "number").num) = env.TRAVIS_PULL_REQUEST.str
          /\ \A o, n \in {<<"a", "b">>, <<"c", "d">>} :
               env.TRAVIS_PULL_REQUEST_SLUG = Str(o \o <<"/">> \o n) =>
                 config.repo = Obj([owner |-> Str(o), name |-> Str(n)])

C4_Witness ==
  /\ prog = "travis"
  /\ env.TRAVIS_PULL_REQUEST = Str(<<"1", "2">>)
  /\ env.TRAVIS_PULL_REQUEST_SHA = Str(S_sha)
  /\ env.TRAVIS_PULL_REQUEST_SLUG = Str(S_travisSlug)
  /\ Did("POST")
  /\ config.pr = Obj([number |-> Num(12), sha |-> Str(S_sha)])

ConfigFields == {"testUrl", "addComment", "minPassScore", "runner", "pr", "repo"}
\* the endpoint and the output field of the POST follow the runner
EndpointAndOutput ==
  IF config.runner = Str(S_wpt)
  THEN /\ post.endpoint = CI_HOST \o S_runOnWpt
       /\ "output" \notin DOMAIN post.body
  ELSE /\ post.endpoint = CI_HOST \o S_runOnChrome
       /\ "output" \in DOMAIN post.body
       /\ post.body["output"] = Str(S_json)

AsJson(v) == IF v = NaN \/ "inf" \in DOMAIN v THEN Null ELSE v
\* an object as JSON carries it: without its undefined properties
ObjAsJson(o, b) ==
  /\ IsObj(b)
  /\ DOMAIN b.obj = {k \in DOMAIN o.obj : o.obj[k] # Undefined}
  /\ \A k \in DOMAIN b.obj : b.obj[k] = AsJson(o.obj[k])

Positive(v) ==
  \/ "num" \in DOMAIN v /\ v.num > 0
  \/ "inf" \in DOMAIN v /\ v.inf > 0
  \/ "frac" \in DOMAIN v /\ v.frac > 0
\* a number other than zero
NonZero(v) ==
  \/ "num" \in DOMAIN v /\ v.num # 0
  \/ "inf" \in DOMAIN v
  \/ "frac" \in DOMAIN v

\* C6, as claimed: with --no-comment the run is rejected with the usage text
\* and code 1 unless --score is a positive number, and every config posted
\* has addComment true or a positive minPassScore.
C6_PositiveScore ==
  /\ (/\ prog = "travis"
      /\ pc # "start"
      /\ ~argv.comment
      /\ ~Positive(ToNumber(argv.score)))
     => UsageExit
  /\ Did("POST")
     => \/ config.addComment = Bool(TRUE)
        \/ Positive(config.minPassScore)

\* C6, amended: the same with "a number other than zero" for "a positive
\* number", the number being Number(--score): a negative score is accepted;
\* a score that is absent, not a numeral, 0 or a numeral that rounds to 0
\* is rejected.
C6_NonZeroScore ==
  /\ (/\ prog = "travis"
      /\ pc # "start"
      /\ ~argv.comment
      /\ ~NonZero(ToNumber(argv.score)))
     => UsageExit
  /\ Did("POST")
     => \/ config.addComment = Bool(TRUE)
        \/ NonZero(config.minPassScore)

C6_Witness ==
  /\ prog = "travis"
  /\ ~argv.help
  /\ argv.url = Str(S_testUrl)
  /\ ~argv.comment
  /\ argv.score = Undefined
  /\ UsageExit
  /\ log = <<"provide_score", "usage">>

\* C7: git, GET and POST happen in this order, each at most once and one at
\* a time; the POST is issued for a complete config only, and nothing
\* follows it.
C7_LinearOrder ==
  /\ ops \in {<<>>, <<"git">>, <<"git", "GET">>, <<"git", "GET", "POST">>, <<"POST">>}
  /\ Cardinality(inflight) <= 1
  /\ inflight # {} => inflight = {ops[Len(ops)]}
  /\ Did("POST") => ConfigFields \subseteq DOMAIN config
  /\ (pc = "exited" /\ Did("POST")) => (resp # Undefined /\ inflight = {})

C7_Witness ==
  /\ ops = <<"git", "GET", "POST">>
  /\ pc = "exited"
  /\ resp.kind = "reject"

\* C8: for a remote url in https or ssh form, with or without ".git" at its
\* end, getRepoSlugFromFile returns owner/name.
C8_SlugOfRemote ==
  \A f \in {"https", "ssh"}, o \in RepoOwners, n \in RepoNames, s \in {<<>>, S_dotGit} :
    (apiReq # Undefined /\ gitUrl = Str(RemoteUrl(f, o, n, s)))
    => apiReq.slug = o \o <<"/">> \o n

\* C9: with runner wpt, once the POST is answered with a body that is JSON,
\* the run-started message is logged and the process does not end with
\* code 1, whatever the JSON.
C9_WptNeverFails ==
  (resp # Undefined /\ resp.kind = "json" /\ config.runner = Str(S_wpt))
  => (exitCode # 1 /\ LastLog = "wpt_started")

\* C10: in part_000, when CIRCLE_PULL_REQUEST is a pull request's url ending
\* in /n, prNumber is n and, with valid arguments, the POST is issued with
\* pr.number n; on a build that is not a pull request's, no POST is issued
\* and the message for that is logged.
C10_CirclePrNumber ==
  /\ \A d \in PrNumerals :
       (prog = "circle" /\ env.CIRCLE_PULL_REQUEST = Str(S_pullUrl \o d)) =>
         /\ pc # "start" => prNumber = Str(d)
         /\ (pc = "exited" /\ getConfigArgs(argv).ok) =>
              (Did("POST") /\ Get(config.pr, "number") = Str(d))
  /\ (prog = "circle" /\ env.CIRCLE_PULL_REQUEST = Undefined /\ getConfigArgs(argv).ok) =>
       /\ ~Did("POST")
       /\ pc = "exited" => LastLog = "non_pr"

====
